---- MODULE Spec2Model ----
(***************************************************************************)
(* Model of the calculator in src/calc.rs (src/src/main.rs is a            *)
(* near-duplicate with the same tokenizer and parser): a lazy tokenizer    *)
(* (TokenParser), a recursive-descent parser (parse_e / parse_t / parse_f) *)
(* building a tree of nodes, and the two node operations eval and repr.    *)
(*                                                                         *)
(* Characters are one-character strings, a String / Vec<char> is a         *)
(* sequence of them.  Rust indices are 0-based: the character at cursor i  *)
(* is inp[i + 1].  Option<usize>::None is the value None (-1).             *)
(*                                                                         *)
(* Panics are recorded in the variable failure under the names the design  *)
(* gives them:                                                             *)
(*   "Invalid token '{}' at index {}"       -> InvalidCharacter            *)
(*   index out of bounds (self.input[i])    -> IndexOutOfBounds            *)
(*   "empty", "Error: Nothing follows NEG!" -> UnexpectedEndOfInput        *)
(*   "Error: Non-num follows NEG",                                         *)
(*   "Error: Illegal factor"                -> UnexpectedToken             *)
(*   "Error: Open parenthesis."             -> UnbalancedParenthesis       *)
(*   "Error: Extra token after expression"  -> TrailingInput               *)
(*   attempt to divide by zero              -> DivisionByZero              *)
(*   attempt to add/multiply/... with overflow (overflow checks on, the    *)
(*   dev and test profiles)                 -> ArithmeticOverflow          *)
(*                                                                         *)
(* i32 arithmetic is modelled with overflow checks on.  A release build    *)
(* wraps instead of panicking; the wrapped values are outside this model,  *)
(* and every property below that reads a value excludes the overflow.      *)
(***************************************************************************)
EXTENDS Integers, Sequences, FiniteSets

VARIABLES input, idx, pc, token, tree, value, rendered, failure

vars == <<input, idx, pc, token, tree, value, rendered, failure>>

\* ------------------------------------------------------------------ bounds

\* Every string over Alphabet of at most MaxLen characters is an input.
MaxLen == 4

\* The same for the tokenizer driven alone, as an iterator.
MaxTokLen == 3

Alphabet == {"0", "1", "2", " ", "+", "-", "*", "/", "(", ")", "x"}

\* ------------------------------------------------------------- primitives

\* Option<usize>::None of TokenParser.idx.
None == -1

I32_MAX == 2147483647

I32_MIN == (-I32_MAX) - 1

Digits == <<"0", "1", "2", "3", "4", "5", "6", "7", "8", "9">>

\* char::is_digit(10)
is_digit(c) == \E d \in 1..10 : Digits[d] = c

\* char::to_digit(10).unwrap()
to_digit(c) == (CHOOSE d \in 1..10 : Digits[d] = c) - 1

\* char::is_whitespace
is_whitespace(c) == c \in {" ", "\t", "\n", "\r"}

\* enum Token; Option<Token>::None is NoToken.
Token(t, v) == [type |-> t, v |-> v]

NoToken == Token("None", 0)

\* ------------------------------------------------------------- tokenizer

RECURSIVE scan_idx(_, _)
\* The while loop of next_char_idx, entered with the local idx = i.
scan_idx(inp, i) ==
    IF i + 1 < Len(inp)
    THEN IF is_whitespace(inp[i + 2]) THEN scan_idx(inp, i + 1) ELSE i + 1
    ELSE None

\* next_char_idx with the scan starting on the current index instead of
\* after it (idx += 1 moved behind the test).
next_char_idx_from_current(inp, i) ==
    IF i = None THEN None
    ELSE IF i < Len(inp) /\ ~is_whitespace(inp[i + 1]) THEN i
    ELSE scan_idx(inp, i)

\* TokenParser::next_char_idx (lookahead_idx in main.rs).
next_char_idx(inp, i) ==
    IF i = None THEN None ELSE scan_idx(inp, i)

RECURSIVE num_loop(_, _, _)
\* The loop of the '0'..='9' arm of next: the cursor i is on a digit.
\* Yields the accumulated value and the cursor on the literal's last digit.
num_loop(inp, i, accum) ==
    LET digit == to_digit(inp[i + 1])
    IN  IF accum > (I32_MAX - digit) \div 10
        THEN [accum |-> 0, idx |-> i, failure |-> "ArithmeticOverflow"]
        ELSE LET a2 == accum * 10 + digit
                 n  == next_char_idx(inp, i)
             IN  IF n # None /\ is_digit(inp[n + 1])
                 THEN num_loop(inp, n, a2)
                 ELSE [accum |-> a2, idx |-> i, failure |-> "None"]

\* The symbol arms of the match in next.
symbol(c) ==
    CASE c = "+" -> "ADD"
      [] c = "-" -> "SUB"
      [] c = "*" -> "MUL"
      [] c = "/" -> "DIV"
      [] c = "(" -> "LPR"
      [] c = ")" -> "RPR"
      [] OTHER   -> "None"

\* The '0'..='9' arm of next once its loop has ended with r: Token::NUM(accum),
\* and the cursor moved on from the literal's last digit.
next_num(inp, r) ==
    IF r.failure # "None"
    THEN [token |-> NoToken, idx |-> r.idx, failure |-> r.failure]
    ELSE [token |-> Token("NUM", r.accum), idx |-> next_char_idx(inp, r.idx),
          failure |-> "None"]

\* TokenParser::next on a parser whose buffer is inp and whose cursor is i:
\* the Option<Token> returned, the cursor afterwards, and the panic if any.
next(inp, i) ==
    IF i = None
    THEN [token |-> NoToken, idx |-> None, failure |-> "None"]
    ELSE IF i >= Len(inp)
    THEN [token |-> NoToken, idx |-> i, failure |-> "IndexOutOfBounds"]
    ELSE LET c == inp[i + 1]
         IN  IF symbol(c) # "None"
             THEN [token |-> Token(symbol(c), 0), idx |-> next_char_idx(inp, i),
                   failure |-> "None"]
             ELSE IF is_digit(c) THEN next_num(inp, num_loop(inp, i, 0))
             ELSE [token |-> NoToken, idx |-> i, failure |-> "InvalidCharacter"]

\* ----------------------------------------------------------------- nodes

\* struct NumNode / NegNode / ParNode / MulNode / DivNode / AddNode / SubNode.
NumNode(v) == [kind |-> "Num", v |-> v, kids |-> <<>>]

NegNode(c) == [kind |-> "Neg", v |-> 0, kids |-> <<c>>]

ParNode(c) == [kind |-> "Par", v |-> 0, kids |-> <<c>>]

BinNode(k, l, r) == [kind |-> k, v |-> 0, kids |-> <<l, r>>]

\* No tree: evaluate has not returned one.
NoNode == [kind |-> "None", v |-> 0, kids |-> <<>>]

\* trait ASTNode: eval.  The i32 result, or the panic that ends the walk.
Ok(v) == [v |-> v, failure |-> "None"]

Err(f) == [v |-> 0, failure |-> f]

\* i32_div rounding toward minus infinity.
i32_div_floor(a, b) == a \div b

\* i32 `/`: the quotient truncated toward zero (b # 0, not I32_MIN / -1).
\* \div rounds toward minus infinity: an inexact negative quotient is one more.
i32_div(a, b) ==
    LET q == a \div b
    IN  IF q * b # a /\ ((a < 0) # (b < 0)) THEN q + 1 ELSE q

\* i32 unary `-` with overflow checks.
i32_neg(a) ==
    IF a = I32_MIN THEN Err("ArithmeticOverflow") ELSE Ok(-a)

\* i32 `*` with overflow checks.
i32_mul(a, b) ==
    LET abs(x) == IF x < 0 THEN -x ELSE x
    IN  IF a = 0 \/ b = 0 THEN Ok(0)
        ELSE IF a = 1 THEN Ok(b)
        ELSE IF b = 1 THEN Ok(a)
        ELSE IF a = -1 THEN i32_neg(b)
        ELSE IF b = -1 THEN i32_neg(a)
        ELSE IF a = I32_MIN \/ b = I32_MIN THEN Err("ArithmeticOverflow")
        ELSE IF abs(a) <= I32_MAX \div abs(b) THEN Ok(a * b)
        ELSE IF /\ (a < 0) # (b < 0)
                /\ I32_MAX % abs(b) = abs(b) - 1
                /\ I32_MAX \div abs(b) = abs(a) - 1
        THEN Ok(I32_MIN)
        ELSE Err("ArithmeticOverflow")

\* i32 `+` with overflow checks.
i32_add(a, b) ==
    IF (b > 0 /\ a > I32_MAX - b) \/ (b < 0 /\ a < I32_MIN - b)
    THEN Err("ArithmeticOverflow") ELSE Ok(a + b)

\* i32 `-` with overflow checks.
i32_sub(a, b) ==
    IF (b < 0 /\ a > I32_MAX + b) \/ (b > 0 /\ a < I32_MIN + b)
    THEN Err("ArithmeticOverflow") ELSE Ok(a - b)

RECURSIVE eval(_)
\* ASTNode::eval of the seven node types.  Operands are evaluated left first.
eval(n) ==
    IF n.kind = "Num" THEN Ok(n.v)
    ELSE IF n.kind = "Par" THEN eval(n.kids[1])
    ELSE IF n.kind = "Neg"
    THEN LET c == eval(n.kids[1])
         IN  IF c.failure # "None" THEN c
             ELSE i32_neg(c.v)
    ELSE LET l == eval(n.kids[1])
         IN  IF l.failure # "None" THEN l
             ELSE LET r == eval(n.kids[2])
                  IN  IF r.failure # "None" THEN r
                      ELSE CASE n.kind = "Mul" -> i32_mul(l.v, r.v)
                             [] n.kind = "Add" -> i32_add(l.v, r.v)
                             [] n.kind = "Sub" -> i32_sub(l.v, r.v)
                             [] n.kind = "Div" ->
                                  IF r.v = 0 THEN Err("DivisionByZero")
                                  ELSE IF l.v = I32_MIN /\ r.v = -1
                                  THEN Err("ArithmeticOverflow")
                                  ELSE Ok(i32_div(l.v, r.v))

RECURSIVE fmt_nat(_)
\* format!("{}", n) of a non-negative integer: its decimal digits.
fmt_nat(n) ==
    IF n < 10 THEN <<Digits[n + 1]>>
    ELSE Append(fmt_nat(n \div 10), Digits[(n % 10) + 1])

\* format!("{}", v) of an i32.
fmt_i32(v) ==
    IF v >= 0 THEN fmt_nat(v)
    ELSE IF v = I32_MIN
    THEN <<"-", "2", "1", "4", "7", "4", "8", "3", "6", "4", "8">>
    ELSE <<"-">> \o fmt_nat(-v)

RECURSIVE repr(_)
\* repr with the operands of SubNode rendered in the wrong order.
repr_sub_swapped(n) ==
    CASE n.kind = "Num" -> fmt_i32(n.v)
      [] n.kind = "Neg" -> <<"<", "-">> \o repr(n.kids[1]) \o <<">">>
      [] n.kind = "Par" -> <<"(">> \o repr(n.kids[1]) \o <<")">>
      [] n.kind = "Mul" -> <<"<">> \o repr(n.kids[1]) \o <<"*">> \o repr(n.kids[2]) \o <<">">>
      [] n.kind = "Div" -> <<"<">> \o repr(n.kids[1]) \o <<"/">> \o repr(n.kids[2]) \o <<">">>
      [] n.kind = "Add" -> <<"<">> \o repr(n.kids[1]) \o <<"+">> \o repr(n.kids[2]) \o <<">">>
      [] n.kind = "Sub" -> <<"<">> \o repr(n.kids[2]) \o <<"-">> \o repr(n.kids[1]) \o <<">">>

\* ASTNode::repr of the seven node types.
repr(n) ==
    CASE n.kind = "Num" -> fmt_i32(n.v)
      [] n.kind = "Neg" -> <<"<", "-">> \o repr(n.kids[1]) \o <<">">>
      [] n.kind = "Par" -> <<"(">> \o repr(n.kids[1]) \o <<")">>
      [] n.kind = "Mul" -> <<"<">> \o repr(n.kids[1]) \o <<"*">> \o repr(n.kids[2]) \o <<">">>
      [] n.kind = "Div" -> <<"<">> \o repr(n.kids[1]) \o <<"/">> \o repr(n.kids[2]) \o <<">">>
      [] n.kind = "Add" -> <<"<">> \o repr(n.kids[1]) \o <<"+">> \o repr(n.kids[2]) \o <<">">>
      [] n.kind = "Sub" -> <<"<">> \o repr(n.kids[1]) \o <<"-">> \o repr(n.kids[2]) \o <<">">>

\* ---------------------------------------------------------------- parser

\* What a grammar rule returns: (Box<dyn ASTNode>, Option<Token>), with the
\* cursor the rule leaves in *p; or the panic that ended it.
Parsed(n, t, i) == [n |-> n, t |-> t, idx |-> i, failure |-> "None"]

Panic(f, i) == [n |-> NoNode, t |-> NoToken, idx |-> i, failure |-> f]

RECURSIVE parse_e(_, _), parse_t(_, _), parse_f(_, _)
RECURSIVE parse_e_loop(_, _, _, _), parse_t_loop(_, _, _, _)

\* The tuple (node, r) of a node n and the result r of p.next().
with_token(n, r) ==
    IF r.failure # "None" THEN Panic(r.failure, r.idx)
    ELSE Parsed(n, r.token, r.idx)

\* return (node, p.next()): how the NUM, SUB and LPR arms of parse_f end.
with_next(inp, n, i) == with_token(n, next(inp, i))

\* parse_f, arm Token::SUB: r1 is the result of the second p.next().
parse_f_sub(inp, r1) ==
    IF r1.failure # "None" THEN Panic(r1.failure, r1.idx)
    ELSE IF r1.token = NoToken THEN Panic("UnexpectedEndOfInput", r1.idx)
    ELSE IF r1.token.type = "NUM"
    THEN with_next(inp, NegNode(NumNode(r1.token.v)), r1.idx)
    ELSE Panic("UnexpectedToken", r1.idx)

\* parse_f, arm Token::LPR: e is what parse_e returned.
parse_f_lpr(inp, e) ==
    IF e.failure # "None" THEN e
    ELSE IF e.t.type = "RPR" THEN with_next(inp, ParNode(e.n), e.idx)
    ELSE Panic("UnbalancedParenthesis", e.idx)

\* The factor f, negated.
neg_factor(f) ==
    IF f.failure # "None" THEN f ELSE Parsed(NegNode(f.n), f.t, f.idx)

\* parse_f_match with the SUB arm negating any factor, not a NUM token only.
parse_f_match_neg_any_factor(inp, r0) ==
    IF r0.failure # "None" THEN Panic(r0.failure, r0.idx)
    ELSE IF r0.token = NoToken THEN Panic("UnexpectedEndOfInput", r0.idx)
    ELSE IF r0.token.type = "NUM" THEN with_next(inp, NumNode(r0.token.v), r0.idx)
    ELSE IF r0.token.type = "SUB"
    THEN neg_factor(parse_f(inp, r0.idx))
    ELSE IF r0.token.type = "LPR" THEN parse_f_lpr(inp, parse_e(inp, r0.idx))
    ELSE Panic("UnexpectedToken", r0.idx)

\* parse_f from `match t0` on: r0 is the result of the first p.next().
parse_f_match(inp, r0) ==
    IF r0.failure # "None" THEN Panic(r0.failure, r0.idx)
    ELSE IF r0.token = NoToken THEN Panic("UnexpectedEndOfInput", r0.idx)
    ELSE IF r0.token.type = "NUM" THEN with_next(inp, NumNode(r0.token.v), r0.idx)
    ELSE IF r0.token.type = "SUB" THEN parse_f_sub(inp, next(inp, r0.idx))
    ELSE IF r0.token.type = "LPR" THEN parse_f_lpr(inp, parse_e(inp, r0.idx))
    ELSE Panic("UnexpectedToken", r0.idx)

\* fn parse_f: num, -<num>, (<expr>)
parse_f(inp, i) == parse_f_match(inp, next(inp, i))

\* One turn of the while loop of parse_t: f is what parse_f returned for the
\* right operand of tv.
parse_t_fold(inp, n0, tv, f) ==
    IF f.failure # "None" THEN f
    ELSE IF f.t = NoToken
    THEN Parsed(BinNode(IF tv.type = "MUL" THEN "Mul" ELSE "Div", n0, f.n), NoToken, f.idx)
    ELSE parse_t_loop(inp, BinNode(IF tv.type = "MUL" THEN "Mul" ELSE "Div", n0, f.n),
                      f.t, f.idx)

\* The while loop of parse_t: n0 is the accumulator, tv the pending token.
parse_t_loop(inp, n0, tv, i) ==
    IF tv.type = "MUL" \/ tv.type = "DIV"
    THEN parse_t_fold(inp, n0, tv, parse_f(inp, i))
    ELSE Parsed(n0, tv, i)

\* parse_t after its first parse_f, which returned f.
parse_t_first(inp, f) ==
    IF f.failure # "None" THEN f
    ELSE IF f.t = NoToken THEN Parsed(f.n, NoToken, f.idx)
    ELSE parse_t_loop(inp, f.n, f.t, f.idx)

\* fn parse_t: <f1>*<f2>, <f1>/<f2>
parse_t(inp, i) == parse_t_first(inp, parse_f(inp, i))

\* One turn of the while loop of parse_e: t is what parse_t returned for the
\* right operand of tv.
parse_e_fold(inp, n0, tv, t) ==
    IF t.failure # "None" THEN t
    ELSE IF t.t = NoToken
    THEN Parsed(BinNode(IF tv.type = "ADD" THEN "Add" ELSE "Sub", n0, t.n), NoToken, t.idx)
    ELSE parse_e_loop(inp, BinNode(IF tv.type = "ADD" THEN "Add" ELSE "Sub", n0, t.n),
                      t.t, t.idx)

\* The while loop of parse_e: n0 is the accumulator, tv the pending token.
parse_e_loop(inp, n0, tv, i) ==
    IF tv.type = "ADD" \/ tv.type = "SUB"
    THEN parse_e_fold(inp, n0, tv, parse_t(inp, i))
    ELSE Parsed(n0, tv, i)

\* parse_e after its first parse_t, which returned t.
parse_e_first(inp, t) ==
    IF t.failure # "None" THEN t
    ELSE IF t.t = NoToken THEN Parsed(t.n, NoToken, t.idx)
    ELSE parse_e_loop(inp, t.n, t.t, t.idx)

\* fn parse_e: <t1>+<t2>, <t1>-<t2>
parse_e(inp, i) == parse_e_first(inp, parse_t(inp, i))

\* evaluate after parse_e, which returned e: Ok, or the pending token's panic.
evaluate_check(e) ==
    IF e.failure # "None" THEN e
    ELSE IF e.t # NoToken THEN Panic("TrailingInput", e.idx)
    ELSE e

\* evaluate folding the tree as soon as it is parsed: eval's panic at parse time.
evaluate_check_folding(e) ==
    IF e.failure # "None" THEN e
    ELSE IF e.t # NoToken THEN Panic("TrailingInput", e.idx)
    ELSE IF eval(e.n).failure # "None" THEN Panic(eval(e.n).failure, e.idx)
    ELSE e

\* evaluate without the check for a pending token.
evaluate_unchecked(inp, i) == parse_e(inp, i)

\* evaluate with the folding check.
evaluate_folding(inp, i) == evaluate_check_folding(parse_e(inp, i))

\* fn evaluate, the entry point, on a parser with buffer inp and cursor i.
evaluate(inp, i) == evaluate_check(parse_e(inp, i))

\* TokenParser::new: the cursor of a new parser.
new(inp) == 0

\* ---------------------------------------------------------------- inputs

\* The expressions of the tests of src/calc.rs and of the documented examples.
Examples ==
    { <<"-", "1", " ", "*", " ", "(", "-", "2", " ", "+", " ", "5", ")">>,
      <<"1", "2", " ", "+", " ", "3", "4", " ", "-", " ", "(", "5", "6", " ", "/", " ", "7", ")", " ", "*", " ", "8">>,
      <<"(", "-", "1", "2", " ", "+", " ", "3", "4", ")", " ", "*", " ", "(", "(", "5", "6", " ", "/", " ", "7", ")", " ", "+", " ", "8", ")">>,
      <<"1", "-", "2", "-", "3">>,
      <<"2", "+", "3", "*", "4">>,
      <<"(", "2", "+", "3", ")", "*", "4">>,
      <<"7", "/", "2">>,
      <<"-", "7", "/", "2">>,
      <<"1", "/", "0">>,
      <<"-", "(", "1", "+", "2", ")">>,
      <<"-", "-", "1">>,
      <<"(", "1", "+", "2">>,
      <<"1", "+", "2", ")">>,
      <<"1", " ", "2">>,
      <<" ", " ", "1", "2", " ", " ", " ", "+", " ", " ", " ", "3", " ">> }

\* The largest i32 literal and its successor.
RangeExamples ==
    { <<"2", "1", "4", "7", "4", "8", "3", "6", "4", "7">>,
      <<"2", "1", "4", "7", "4", "8", "3", "6", "4", "8">> }

\* --------------------------------------------------------------- actions

\* No value yet / no rendering yet: neither eval nor repr has run.
NoValue == <<>>

NoString == <<>>

\* main before it has its input: no parser yet.  pc is the caller's position:
\* "start", "new" (parser built), "iterating" (tokens pulled by hand),
\* "parsed" (evaluate returned the tree), or "panicked_<call>" (the call that
\* panicked).
Init ==
    /\ input = <<>>
    /\ idx = None
    /\ pc = "start"
    /\ token = NoToken
    /\ tree = NoNode
    /\ value = NoValue
    /\ rendered = NoString
    /\ failure = "None"

\* let parser = TokenParser::new(s)
Build(s) ==
    /\ input' = s
    /\ idx' = new(s)
    /\ pc' = "new"
    /\ UNCHANGED <<token, tree, value, rendered, failure>>

\* main or a test builds the parser of its input: any string over Alphabet of
\* at most maxlen characters, or one of the strings of examples.
NewFrom(maxlen, examples) ==
    /\ pc = "start"
    /\ \/ \E n \in 0..maxlen : \E s \in [1..n -> Alphabet] : Build(SubSeq(s, 1, n))
       \/ \E s \in examples : Build(s)

New == NewFrom(MaxLen, Examples \cup RangeExamples)

TokNew == NewFrom(MaxTokLen, Examples)

\* parser.next() returned r, or panicked.
Pulled(r) ==
    /\ token' = r.token
    /\ idx' = r.idx
    /\ failure' = r.failure
    /\ pc' = IF r.failure # "None" THEN "panicked_next" ELSE "iterating"
    /\ UNCHANGED <<input, tree, value, rendered>>

\* A caller of the iterator pulls one token: parser.next().
NextToken ==
    /\ pc \in {"new", "iterating"}
    /\ Pulled(next(input, idx))

\* evaluate(parser) returned the tree of r, or panicked.
Returned(r) ==
    /\ tree' = r.n
    /\ idx' = r.idx
    /\ failure' = r.failure
    /\ pc' = IF r.failure # "None" THEN "panicked_evaluate" ELSE "parsed"
    /\ UNCHANGED <<input, token, value, rendered>>

\* n = evaluate(parser) on the new parser, as main and the tests call it.
Evaluate ==
    /\ pc = "new"
    /\ Returned(evaluate(input, idx))

\* n.repr(), printed by main after "REPR: ".
Repr ==
    /\ pc = "parsed"
    /\ rendered = NoString
    /\ rendered' = repr(tree)
    /\ UNCHANGED <<input, idx, pc, token, tree, value, failure>>

\* n.eval() returned the value of r, or panicked.
Evaluated(r) ==
    /\ IF r.failure # "None"
       THEN /\ failure' = r.failure
            /\ pc' = "panicked_eval"
            /\ value' = value
       ELSE /\ value' = <<r.v>>
            /\ UNCHANGED <<failure, pc>>
    /\ UNCHANGED <<input, idx, token, tree, rendered>>

\* n.eval(), printed by main after "Result: " and asserted by the tests.
Eval ==
    /\ pc = "parsed"
    /\ value = NoValue
    /\ Evaluated(eval(tree))

Next == New \/ NextToken \/ Evaluate \/ Repr \/ Eval

Spec == Init /\ [][Next]_vars

\* The tokenizer alone, driven as an iterator: the caller keeps calling next.
TokNext == TokNew \/ NextToken

TokSpec == Init /\ [][TokNext]_vars /\ WF_vars(NextToken)

\* ------------------------------------------------- reference evaluator
\* The arithmetic the design states, worked out independently of the parser:
\* tokens are maximal digit runs and single symbols separated by optional
\* whitespace; an expression splits at its LAST top-level binary '+' or '-'
\* (left-to-right folding), a term at its last top-level '*' or '/', a factor
\* is NUMBER, '-' NUMBER or '(' expression ')'; '/' truncates toward zero.

RECURSIVE RefDigitsEnd(_, _)
\* The position of the last digit of the digit run of s that starts at k.
RefDigitsEnd(s, k) ==
    IF k < Len(s) /\ s[k + 1] \in {Digits[d] : d \in 1..10}
    THEN RefDigitsEnd(s, k + 1) ELSE k

RECURSIVE RefLiteral(_)
\* The value of a digit string, or -1 when it is beyond the i32 range.
RefLiteral(ds) ==
    IF ds = <<>> THEN 0
    ELSE LET hi == RefLiteral(SubSeq(ds, 1, Len(ds) - 1))
             d  == CHOOSE x \in 0..9 : Digits[x + 1] = ds[Len(ds)]
         IN  IF hi = -1 \/ hi > (I32_MAX - d) \div 10 THEN -1 ELSE hi * 10 + d

RECURSIVE RefLex(_, _)
\* The tokens of s from position k on ("BAD": a character outside the
\* language, "BIG": a literal beyond the i32 range).
RefLex(s, k) ==
    IF k > Len(s) THEN <<>>
    ELSE IF s[k] \in {" ", "\t", "\n", "\r"} THEN RefLex(s, k + 1)
    ELSE IF s[k] \in {"+", "-", "*", "/", "(", ")"}
    THEN <<[type |-> s[k], v |-> 0]>> \o RefLex(s, k + 1)
    ELSE IF s[k] \in {Digits[d] : d \in 1..10}
    THEN LET m == RefDigitsEnd(s, k)
             v == RefLiteral(SubSeq(s, k, m))
         IN  <<[type |-> IF v = -1 THEN "BIG" ELSE "NUM", v |-> v]>> \o RefLex(s, m + 1)
    ELSE <<[type |-> "BAD", v |-> 0]>>

RECURSIVE RefDepth(_, _)
\* The parenthesis depth of the tokens ts just before position k.
RefDepth(ts, k) ==
    IF k <= 1 THEN 0
    ELSE RefDepth(ts, k - 1)
         + (IF ts[k - 1].type = "(" THEN 1 ELSE IF ts[k - 1].type = ")" THEN -1 ELSE 0)

\* The positions of ts holding a top-level binary operator among ops.
RefSplits(ts, ops) ==
    {k \in 2..Len(ts) : /\ ts[k].type \in ops
                        /\ ts[k - 1].type \in {"NUM", "BIG", ")"}
                        /\ RefDepth(ts, k) = 0}

RefMax(S) == CHOOSE k \in S : \A j \in S : j <= k

RefOk(v) == [st |-> IF v > I32_MAX \/ v < I32_MIN THEN "range" ELSE "ok", v |-> v]

RefNo(st) == [st |-> st, v |-> 0]

\* a op b in the integers; '/' truncates toward zero.
RefApply(op, a, b) ==
    IF a.st # "ok" THEN a
    ELSE IF b.st # "ok" THEN b
    ELSE CASE op = "+" -> RefOk(a.v + b.v)
           [] op = "-" -> RefOk(a.v - b.v)
           [] op = "*" -> RefOk(a.v * b.v)
           [] op = "/" ->
                IF b.v = 0 THEN RefNo("zero")
                ELSE LET mag(x) == IF x < 0 THEN -x ELSE x
                         q == mag(a.v) \div mag(b.v)
                     IN  RefOk(IF (a.v < 0) # (b.v < 0) THEN -q ELSE q)

RECURSIVE RefExpr(_), RefTerm(_), RefFactor(_)
\* factor := NUMBER | '-' NUMBER | '(' expression ')'
RefFactor(ts) ==
    IF Len(ts) = 1 /\ ts[1].type = "NUM" THEN RefOk(ts[1].v)
    ELSE IF Len(ts) = 1 /\ ts[1].type = "BIG" THEN RefNo("range")
    ELSE IF Len(ts) = 2 /\ ts[1].type = "-" /\ ts[2].type = "NUM" THEN RefOk(-ts[2].v)
    ELSE IF Len(ts) = 2 /\ ts[1].type = "-" /\ ts[2].type = "BIG" THEN RefNo("range")
    ELSE IF Len(ts) >= 3 /\ ts[1].type = "(" /\ ts[Len(ts)].type = ")"
    THEN RefExpr(SubSeq(ts, 2, Len(ts) - 1))
    ELSE RefNo("reject")

\* term := factor (('*'|'/') factor)*
RefTerm(ts) ==
    LET S == RefSplits(ts, {"*", "/"})
    IN  IF S = {} THEN RefFactor(ts)
        ELSE LET k == RefMax(S)
                 l == RefTerm(SubSeq(ts, 1, k - 1))
                 r == RefFactor(SubSeq(ts, k + 1, Len(ts)))
             IN  IF l.st = "reject" \/ r.st = "reject" THEN RefNo("reject")
                 ELSE RefApply(ts[k].type, l, r)

\* expression := term (('+'|'-') term)*
RefExpr(ts) ==
    LET S == RefSplits(ts, {"+", "-"})
    IN  IF S = {} THEN RefTerm(ts)
        ELSE LET k == RefMax(S)
                 l == RefExpr(SubSeq(ts, 1, k - 1))
                 r == RefTerm(SubSeq(ts, k + 1, Len(ts)))
             IN  IF l.st = "reject" \/ r.st = "reject" THEN RefNo("reject")
                 ELSE RefApply(ts[k].type, l, r)

\* The reference's verdict on a string: "ok" with its value, "reject" (not in
\* the grammar), "zero" (a zero divisor), "range" (a value beyond i32).
RefEvaluate(s) == RefExpr(RefLex(s, 1))

\* Evaluate has run on the input (and eval, repr may have run after it).
AfterEvaluate == pc \in {"parsed", "panicked_evaluate", "panicked_eval"}

\* The input does not start with whitespace (it is "", or trimmed on the left).
NoLeadingWhitespace == input = <<>> \/ ~is_whitespace(input[1])

\* s is digits, then at least one whitespace character, then digits.
TwoLiterals(s) ==
    \E i \in 1..Len(s), j \in 1..Len(s) :
        /\ i + 1 < j
        /\ \A k \in 1..i : is_digit(s[k])
        /\ \A k \in (i + 1)..(j - 1) : is_whitespace(s[k])
        /\ \A k \in j..Len(s) : is_digit(s[k])

\* s is k whitespace characters followed by at least one digit, nothing else.
LiteralAfter(s, k) ==
    /\ k < Len(s)
    /\ \A j \in 1..k : is_whitespace(s[j])
    /\ \A j \in (k + 1)..Len(s) : is_digit(s[j])

\* evaluate accepts the string s: it returns a tree.
Accepted(s) == evaluate(s, new(s)).failure = "None"

\* ------------------------------------------------------------------ C1

\* C1: an input of two integer literals separated only by whitespace ("1 2")
\* is rejected by evaluate with TrailingInput.
C1_AdjacentLiteralsRejected ==
    (AfterEvaluate /\ TwoLiterals(input)) =>
        (pc = "panicked_evaluate" /\ failure = "TrailingInput")

\* ------------------------------------------------------------------ C2

\* C2: for an input of whitespace followed by one integer literal, evaluate
\* succeeds, eval is the literal's value and repr is the literal's digits.
C2_LiteralEvaluatesToItself ==
    \A k \in 0..Len(input) :
        (AfterEvaluate /\ LiteralAfter(input, k)) =>
            LET ds == SubSeq(input, k + 1, Len(input))
            IN  /\ pc = "parsed"
                /\ value # NoValue => value = <<RefLiteral(ds)>>
                /\ rendered # NoString => rendered = ds

\* ------------------------------------------------------------------ C3

\* C3 as stated: "(" followed by a complete expression fails with
\* UnbalancedParenthesis, and a complete expression followed by ")" fails
\* with UnexpectedToken.
C3_UnmatchedCloseIsUnexpectedToken ==
    (AfterEvaluate /\ input # <<>>) =>
        /\ (input[1] = "(" /\ Accepted(Tail(input)))
               => failure = "UnbalancedParenthesis"
        /\ (input[Len(input)] = ")" /\ Accepted(SubSeq(input, 1, Len(input) - 1)))
               => failure = "UnexpectedToken"

\* C3 (amended): "(" followed by a complete expression fails with
\* UnbalancedParenthesis, and a complete expression followed by ")" fails
\* with TrailingInput, raised by the evaluate driver.
C3_UnmatchedCloseIsTrailingInput ==
    (AfterEvaluate /\ input # <<>>) =>
        /\ (input[1] = "(" /\ Accepted(Tail(input)))
               => (pc = "panicked_evaluate" /\ failure = "UnbalancedParenthesis")
        /\ (input[Len(input)] = ")" /\ Accepted(SubSeq(input, 1, Len(input) - 1)))
               => (pc = "panicked_evaluate" /\ failure = "TrailingInput")

\* Both cases of C3 have been evaluated: here an unmatched ")" after "1+2".
C3_Witness ==
    /\ input = <<"1", "+", "2", ")">>
    /\ pc = "panicked_evaluate"
    /\ failure = "TrailingInput"

\* ------------------------------------------------------------------ C4

\* C4: on a dangling "-", a dangling "(" and the empty input, the tokenizer
\* yields no token without failing and evaluate fails with
\* UnexpectedEndOfInput.
C4_ExhaustionIsUnexpectedEndOfInput ==
    /\ (AfterEvaluate /\ input \in {<<>>, <<"-">>, <<"(">>})
           => (pc = "panicked_evaluate" /\ failure = "UnexpectedEndOfInput")
    /\ (input = <<>> /\ pc \in {"iterating", "panicked_next"})
           => (pc = "iterating" /\ token = NoToken)

\* ------------------------------------------------------------------ C5

\* '<' replaced by '(' and '>' by ')'.
Unbracket(s) ==
    [k \in 1..Len(s) |-> IF s[k] = "<" THEN "(" ELSE IF s[k] = ">" THEN ")" ELSE s[k]]

\* C5: evaluating the rendering of a parsed tree, with <..> read as
\* parentheses, succeeds and gives the value (or the division by zero) of the
\* tree itself.
C5_RenderingRoundTrip ==
    (rendered # NoString /\ eval(tree).failure # "ArithmeticOverflow") =>
        LET s == Unbracket(rendered)
            r == evaluate(s, new(s))
        IN  /\ r.failure = "None"
            /\ eval(r.n) = eval(tree)

\* A rendering with added brackets has been produced and re-evaluated.
C5_Witness ==
    /\ rendered = <<"<", "<", "-", "1", ">", "/", "2", ">">>
    /\ value = <<0>>

\* ------------------------------------------------------------------ C6

\* C6: on every input of the grammar (no leading whitespace, values in range,
\* no zero divisor) evaluate succeeds and eval is the reference value.
C6_MatchesReference ==
    (AfterEvaluate /\ NoLeadingWhitespace /\ RefEvaluate(input).st = "ok") =>
        /\ pc = "parsed"
        /\ value # NoValue => value = <<RefEvaluate(input).v>>

\* Precedence, left folding and truncation have been evaluated ("-1/2" is 0,
\* not -1).
C6_Witness ==
    /\ input = <<"-", "1", "/", "2">>
    /\ value = <<0>>

\* ------------------------------------------------------------------ C7

\* The character of s at or after position k that is not whitespace ("" if none).
RECURSIVE Significant(_, _)
Significant(s, k) ==
    IF k > Len(s) THEN ""
    ELSE IF is_whitespace(s[k]) THEN Significant(s, k + 1) ELSE s[k]

RECURSIVE SignificantBefore(_, _)
\* The character of s at or before position k that is not whitespace.
SignificantBefore(s, k) ==
    IF k < 1 THEN ""
    ELSE IF is_whitespace(s[k]) THEN SignificantBefore(s, k - 1) ELSE s[k]

\* s has a '-' in factor position (first, or after an operator or '(') whose
\* next significant character is one of the six symbols.
MinusBeforeSymbol(s) ==
    \E k \in 1..Len(s) :
        /\ s[k] = "-"
        /\ SignificantBefore(s, k - 1) \in {"", "+", "-", "*", "/", "("}
        /\ Significant(s, k + 1) \in {"+", "-", "*", "/", "(", ")"}

RECURSIVE NegOnlyOnNum(_)
\* Every NegNode of the tree n holds a NumNode.
NegOnlyOnNum(n) ==
    /\ n.kind = "Neg" => n.kids[1].kind = "Num"
    /\ \A k \in 1..Len(n.kids) : NegOnlyOnNum(n.kids[k])

\* C7: a leading '-' before a token that is no NUMBER fails with
\* UnexpectedToken, an input with a unary '-' before a symbol is never
\* accepted, and a NegNode only ever holds a NumNode.
C7_UnaryMinusOnlyBeforeNumber ==
    AfterEvaluate =>
        /\ (input # <<>> /\ input[1] = "-"
               /\ Significant(input, 2) \in {"+", "-", "*", "/", "(", ")"})
               => (pc = "panicked_evaluate" /\ failure = "UnexpectedToken")
        /\ MinusBeforeSymbol(input) => pc = "panicked_evaluate"
        /\ tree # NoNode => NegOnlyOnNum(tree)

\* "-(1)" has been evaluated and rejected.
C7_Witness ==
    /\ input = <<"-", "(", "1", ")">>
    /\ pc = "panicked_evaluate"
    /\ failure = "UnexpectedToken"

\* ------------------------------------------------------------------ C8

\* C8: an input of the grammar with a zero divisor is parsed to completion
\* (evaluate returns its tree without failure); DivisionByZero is raised by
\* eval on that tree and by nothing else.
C8_DivisionByZeroAtEval ==
    /\ failure = "DivisionByZero" => (pc = "panicked_eval" /\ tree # NoNode)
    /\ (AfterEvaluate /\ NoLeadingWhitespace /\ RefEvaluate(input).st = "zero") =>
           /\ tree # NoNode
           /\ pc = "parsed" => (failure = "None" /\ value = NoValue)
           /\ pc # "parsed" => (pc = "panicked_eval" /\ failure = "DivisionByZero")

\* "1/0" has been parsed, rendered and then evaluated.
C8_Witness ==
    /\ input = <<"1", "/", "0">>
    /\ rendered = <<"<", "1", "/", "0", ">">>
    /\ pc = "panicked_eval"
    /\ failure = "DivisionByZero"

\* ------------------------------------------------------------------ C9

\* A call of next that returns a token moves the cursor strictly forward.
C9_TokenAdvances ==
    (pc # "start" /\ failure' = "None" /\ token' # NoToken) => (idx' = None \/ idx' > idx)

\* A call of next on an exhausted cursor returns no token and changes nothing.
C9_ExhaustedStays ==
    (pc # "start" /\ idx = None) =>
        (token' = NoToken /\ idx' = None /\ input' = input /\ failure' = "None")

\* C9 as stated: a returned token advances the cursor, the cursor reaches
\* exhaustion after finitely many calls, and from then on next returns no
\* token and changes nothing.  Stated here for the parsers built on a
\* significant first character only, where the cursor of new is a valid one.
C9_CursorReachesExhaustion ==
    /\ [][C9_TokenAdvances /\ C9_ExhaustedStays]_vars
    /\ (pc = "new" /\ input # <<>> /\ NoLeadingWhitespace) ~> (idx = None)

\* C9 (amended): a returned token advances the cursor; after finitely many
\* calls the cursor is exhausted or a call has failed; once the cursor is
\* exhausted next returns no token and changes nothing.
C9_ExhaustionOrFailure ==
    /\ [][C9_TokenAdvances /\ C9_ExhaustedStays]_vars
    /\ (pc = "new") ~> (idx = None \/ failure # "None")

\* The tokens of "1+2" have been pulled and a further call returned none.
C9_Witness ==
    /\ input = <<"1", "+", "2">>
    /\ pc = "iterating"
    /\ idx = None
    /\ token = NoToken

\* ------------------------------------------------------------------ C10

\* C10: the cursor is exhausted or the index of a character of the buffer that
\* is not whitespace.
C10_CursorOnSignificantCharacter ==
    pc = "start" \/ idx = None \/ (idx < Len(input) /\ ~is_whitespace(input[idx + 1]))

====
